---- MODULE Spec2Model ----
(***************************************************************************)
(* Model of the batched upload routine uploadToApi of                      *)
(* client/src/services/apiUploadService.ts: chunking of the input list,    *)
(* per-batch base64 encoding, POST with bounded retry, and aggregation of  *)
(* the per-batch outcomes into one report.                                 *)
(*                                                                         *)
(* The routine is an async function: one action per resumption, i.e. each  *)
(* action runs the synchronous code from one await to the next.            *)
(* Strings built by join / template literals are sequences of tokens, so   *)
(* that the empty string is the empty sequence.                            *)
(*                                                                         *)
(* Further sections model the callers of the routine, the API upload       *)
(* handlers of the two PdfReader pages, the folder drops handled by        *)
(* handleFileUpload of the client page, and the superseded uploadToApi of  *)
(* certificateStoreAPI.ts.                                                 *)
(***************************************************************************)
EXTENDS Integers, Sequences, FiniteSets, TLC

\* ------------------------------------------------------------------ bounds
\* Longest input list drawn by Init (21 = two full batches and a remainder).
MaxFiles == 21
\* Number of distinct display names among the input items (names repeat).
NumNames == 3
\* Longest input list of the specification that follows every single
\* encoding of a batch (SpecEnc): the encodings complete in any order.
MaxEncFiles == 5

\* ------------------------------------------------------- program constants
\* chunkArray(files, 10)
BatchSize == 10
\* while (attempt < 3 && !success)
MaxAttempts == 3

\* ------------------------------------------------------------------- state
VARIABLES
    files,          \* the caller's list of { file, data }
    pc,             \* where the invocation is suspended
    fileBatches,    \* const fileBatches = chunkArray(files, 10)
    i,              \* for-loop index (0-based)
    payload,        \* encoded records of the current batch
    attempt,        \* let attempt
    success,        \* let success
    lastError,      \* let lastError
    allUploadIds,   \* let allUploadIds
    allSuccess,     \* let allSuccess
    allMessages,    \* let allMessages
    failedBatches,  \* const failedBatches
    requests,       \* every fetch() issued so far, with what became of it
    report,         \* the value the promise resolved with
    slots,          \* results of the batch's encodings, in completion order
    encoded,        \* the files whose convertFileToBase64 has resolved
    thrown,         \* the value the outer catch caught
    \* state of the PdfReader page (useState) and of its handlers
    page,                 \* "client": client/src/pages, "bulk": src/pages
    uploadedFiles,        \* useState<{ file, data }[]>
    extractedDataList,    \* useState<PdfData[]>
    failedPanExtractions, \* useState<FailedPanExtraction[]>
    isProcessing,         \* useState(false)
    isApiUploading,       \* useState(false)
    pageError,            \* useState<string | null> error, << >> is null
    processingStarted,    \* useState(false)
    toast,                \* title of the last toast, "" when none was shown
    handler,              \* where the API upload handler is suspended
    inFlight,             \* uploadToApi invocations that have not returned
    tasks,                \* per dropped file: where handleFileUpload is
    timers,               \* pending setTimeout(..., 3000) callbacks
    drops,                \* folder drops so far
    \* locals of the superseded uploadToApi of certificateStoreAPI.ts
    oldPc,                \* where that invocation is suspended
    oldBatch,             \* 1-based position of `batch` in fileBatches
    oldPayload,           \* const payload
    oldUploadIds,         \* let allUploadIds
    oldAllSuccess,        \* let allSuccess
    oldMessages,          \* let allMessages
    oldRequests,          \* every fetch() it issued, with what became of it
    oldReport             \* the value its promise resolved with

uploadVars == << files, pc, fileBatches, i, payload, attempt, success,
                 lastError, allUploadIds, allSuccess, allMessages,
                 failedBatches, requests, report, slots, encoded, thrown >>

pageVars == << page, uploadedFiles, extractedDataList, failedPanExtractions,
               isProcessing, isApiUploading, pageError, processingStarted,
               toast, handler, inFlight, tasks, timers, drops >>

oldVars == << oldPc, oldBatch, oldPayload, oldUploadIds, oldAllSuccess,
              oldMessages, oldRequests, oldReport >>

vars == << uploadVars, pageVars, oldVars >>

\* ---------------------------------------------------------------- helpers
Min(a, b) == IF a < b THEN a ELSE b

\* Array.prototype.slice(start, end) on 0-based indices, end exclusive and
\* clamped to the length.
slice_DropsLast(arr, start, end) ==
    SubSeq(arr, start + 1, Min(end, Len(arr)) - 1)

slice_EndInclusive(arr, start, end) ==
    SubSeq(arr, start + 1, Min(end + 1, Len(arr)))

slice(arr, start, end) ==
    SubSeq(arr, start + 1, Min(end, Len(arr)))

\* the loop test of chunkArray: i < arr.length
ChunkLoopCond_Inclusive(idx, arr) == idx <= Len(arr)

ChunkLoopCond(idx, arr) == idx < Len(arr)

\* for (let i = 0; i < arr.length; i += size) res.push(arr.slice(i, i + size))
RECURSIVE chunkArrayFrom(_, _, _, _)
chunkArrayFrom(arr, size, idx, res) ==
    IF ChunkLoopCond(idx, arr)
    THEN chunkArrayFrom(arr, size, idx + size,
                        Append(res, slice(arr, idx, idx + size)))
    ELSE res

chunkArray(arr, size) == chunkArrayFrom(arr, size, 0, << >>)

\* Array.prototype.join: the elements with the separator between neighbours;
\* the empty array joins to the empty string.
RECURSIVE join(_, _)
join(arr, sep) ==
    IF Len(arr) = 0 THEN << >>
    ELSE IF Len(arr) = 1 THEN << arr[1] >>
    ELSE << arr[1], sep >> \o join(Tail(arr), sep)

\* ------------------------------------------------------------------ inputs
\* The k-th item of the caller's list: a File and its EmployeeData record.
\* The document the caller put into data is a placeholder; names repeat.
Item(k) ==
    [ file |-> k,
      data |-> [ employeeName |-> k % NumNames,
                 employeePAN  |-> k,
                 document     |-> << "caller", k >> ] ]

\* convertFileToBase64: the data URL of the file with the prefix removed.
convertFileToBase64(file) == << "base64", file >>

\* { ...data, document: base64Document }
EncodeItem_SpreadLast(it) == it.data

EncodeItem(it) ==
    [ it.data EXCEPT !.document = convertFileToBase64(it.file) ]

EncodeBatch(batch) == [ k \in 1..Len(batch) |-> EncodeItem(batch[k]) ]

\* The caller's item after the map callback ran on it: the callback builds
\* a new object from a spread and writes to nothing else.
InputAfterEncodeItem_InPlace(it) ==
    [ it EXCEPT !.data.document = convertFileToBase64(it.file) ]

InputAfterEncodeItem(it) == it

\* The caller's list after the items at positions lo..hi were encoded.
InputAfterEncode(fs, lo, hi) ==
    [ p \in 1..Len(fs) |->
        IF p >= lo /\ p <= hi THEN InputAfterEncodeItem(fs[p]) ELSE fs[p] ]

\* One settled encoding: the position of its item in the batch and the
\* record its callback returned.
Slot(k, it) == [ index |-> k, value |-> EncodeItem(it) ]

SlotIndexes(sl) == { sl[j].index : j \in 1..Len(sl) }

\* Promise.all: the results by the position of their promise, whatever the
\* order in which the promises resolved.
PromiseAll_CompletionOrder(sl, n) == [ k \in 1..n |-> sl[k].value ]

PromiseAll(sl, n) ==
    [ k \in 1..n |->
        (CHOOSE e \in { sl[j] : j \in 1..Len(sl) } : e.index = k).value ]

\* reader.onerror = error => reject(error): the rejection value is the
\* ProgressEvent of the FileReader, which is no Error and has no message;
\* the reason of the failure is reader.error (a DOMException).
NoThrow == [ kind |-> "none", isError |-> FALSE, message |-> "",
             readerError |-> "" ]

ReadErrorEvent == [ kind |-> "ProgressEvent", isError |-> FALSE,
                    message |-> "",
                    readerError |-> "The requested file could not be read" ]

\* ---------------------------------------------------------------- messages
\* One token of a message string.
Tok(kind, batch, text, error, names) ==
    [ kind |-> kind, batch |-> batch, text |-> text, error |-> error,
      names |-> names ]

StrTok(text) == Tok("text", 0, text, "", << >>)

\* `Batch ${i + 1} uploaded successfully`
SuccessLine(b) == Tok("line", b, "uploaded successfully", "", << >>)

\* `Batch ${i + 1} failed after 3 attempts: ${lastError}`
FailedLine(b, err) == Tok("line", b, "failed after 3 attempts: ", err, << >>)

\* { batchIndex: i + 1, files: batch.map(({ data }) => data.employeeName),
\*   error: lastError }
FailedEntry_ZeroBased(b, batch, err) ==
    [ batchIndex |-> b - 1,
      files |-> [ k \in 1..Len(batch) |-> batch[k].data.employeeName ],
      error |-> err ]

FailedEntry(b, batch, err) ==
    [ batchIndex |-> b,
      files |-> [ k \in 1..Len(batch) |-> batch[k].data.employeeName ],
      error |-> err ]

\* JSON.stringify(failedBatches): one token per entry
Stringify(fb) ==
    [ k \in 1..Len(fb) |->
        Tok("json", fb[k].batchIndex, "", fb[k].error, fb[k].files) ]

\* allMessages.join('; ') + (failedBatches.length > 0
\*    ? `; Failed batches: ${JSON.stringify(failedBatches)}` : '')
ReportMessage_AlwaysAppends(msgs, fb) ==
    join(msgs, StrTok("; "))
      \o << StrTok("; Failed batches: ") >> \o Stringify(fb)

ReportMessage(msgs, fb) ==
    join(msgs, StrTok("; "))
      \o (IF Len(fb) > 0
          THEN << StrTok("; Failed batches: ") >> \o Stringify(fb)
          ELSE << >>)

\* the report of the normal return
FinalReport(ok, msgs, fb, ids) ==
    [ success  |-> ok,
      message  |-> ReportMessage(msgs, fb),
      uploadId |-> join(ids, << "," >>) ]

\* error instanceof Error ? error.message : 'API upload failed'
ErrorMessage(err) ==
    IF err.isError THEN err.message ELSE "API upload failed"

\* the report of the outer catch: no uploadId
CatchReport(err) ==
    [ success |-> FALSE, message |-> << StrTok(ErrorMessage(err)) >> ]

\* Date.now(): the clock, which never goes back (here the number of
\* requests issued so far).
DateNow == Len(requests)

\* result.uploadId || `api-${Date.now()}`; an identifier is a pair, the
\* absent or empty one is << >>.
UploadIdOf_NoFallback(resultId) == resultId

UploadIdOf(resultId) ==
    IF resultId = << >> THEN << "api", DateNow >> ELSE resultId

\* --------------------------------------------------------------- requests
\* The record kept of one fetch(): the batch it carries (1-based), the body
\* sent, the response (pending, 2xx, non2xx, neterr) and what became of
\* response.json() (na, pending, parsed, unparseable), with the uploadId of
\* the parsed body (<< >> when it has none).
Request_SplitsOnRetry(b, pl) ==
    [ batch    |-> b,
      body     |-> [ form16DocumentAlls |->
                       IF \E k \in 1..Len(requests) : requests[k].batch = b
                       THEN SubSeq(pl, 1, Len(pl) - 1)
                       ELSE pl ],
      response |-> "pending",
      json     |-> "na",
      uploadId |-> << >> ]

Request(b, pl) ==
    [ batch    |-> b,
      body     |-> [ form16DocumentAlls |-> pl ],
      response |-> "pending",
      json     |-> "na",
      uploadId |-> << >> ]

\* the last request with its response (and body parse) filled in
Answered(reqs, resp, js) ==
    [ reqs EXCEPT ![Len(reqs)] = [ @ EXCEPT !.response = resp, !.json = js ] ]

\* the last request answered 2xx with a JSON body carrying the identifier id
Parsed(reqs, id) ==
    [ Answered(reqs, "2xx", "parsed") EXCEPT ![Len(reqs)].uploadId = id ]

\* while (attempt < 3 && !success)
WhileCond_NoRetry(att, succ) == att < 1 /\ ~succ

WhileCond_OneMore(att, succ) == att <= MaxAttempts /\ ~succ

WhileCond_IgnoresSuccess(att, succ) == att < MaxAttempts

WhileCond(att, succ) == att < MaxAttempts /\ ~succ

\* the for loop's i++
NextIndex_Skips(idx) == idx + 2

NextIndex(idx) == idx + 1

\* if (!success) { allSuccess = false; ... }
AllSuccessAfter_Sticky(all, succ) == all

AllSuccessAfter(all, succ) == IF succ THEN all ELSE FALSE

\* ----------------------------------------------------------- Init and Next
NoReport == [ pending |-> TRUE ]

\* no uploadToApi invocation has started
UploadIdle ==
    /\ pc = "idle"
    /\ fileBatches = << >>
    /\ i = 0
    /\ payload = << >>
    /\ attempt = 0
    /\ success = FALSE
    /\ lastError = ""
    /\ allUploadIds = << >>
    /\ allSuccess = TRUE
    /\ allMessages = << >>
    /\ failedBatches = << >>
    /\ requests = << >>
    /\ report = NoReport
    /\ slots = << >>
    /\ encoded = { }
    /\ thrown = NoThrow

\* the page as it is mounted: every useState at its initial value
HandlersIdle ==
    /\ failedPanExtractions = << >>
    /\ isProcessing = FALSE
    /\ isApiUploading = FALSE
    /\ pageError = << >>
    /\ processingStarted = FALSE
    /\ toast = ""
    /\ handler = "none"
    /\ inFlight = 0
    /\ tasks = << >>
    /\ timers = 0
    /\ drops = 0

PageMounted ==
    /\ uploadedFiles = << >>
    /\ extractedDataList = << >>
    /\ HandlersIdle

\* the superseded variant has not been invoked
OldIdle ==
    /\ oldPc = "idle"
    /\ oldBatch = 0
    /\ oldPayload = << >>
    /\ oldUploadIds = << >>
    /\ oldAllSuccess = TRUE
    /\ oldMessages = << >>
    /\ oldRequests = << >>
    /\ oldReport = NoReport

\* uploadToApi called on its own with a list of up to MaxFiles items
Init ==
    /\ files \in { [ k \in 1..n |-> Item(k) ] : n \in 0..MaxFiles }
    /\ UploadIdle
    /\ page = "client"
    /\ PageMounted
    /\ OldIdle

\* The for loop's test with index idx, after the aggregates have the given
\* values: the next batch's encodings are started (Promise.all), or the
\* loop is over and the report is returned.  The variables of the loop body
\* (payload, attempt, success, lastError) go out of scope.
ForLoop(idx, batches, ok, msgs, fb, ids) ==
    /\ i' = idx
    /\ allSuccess' = ok
    /\ allMessages' = msgs
    /\ failedBatches' = fb
    /\ allUploadIds' = ids
    /\ payload' = << >>
    /\ attempt' = 0
    /\ success' = FALSE
    /\ lastError' = ""
    /\ IF idx < Len(batches)
       THEN /\ pc' = "encode"
            /\ report' = report
       ELSE /\ pc' = "done"
            /\ report' = FinalReport(ok, msgs, fb, ids)

\* The while loop's test after an attempt (or before the first): another
\* fetch() is issued for the same payload, or the batch is over: a failed
\* batch is recorded, and the for loop goes on.
WhileLoop(pl, att, succ, err, ids, msgs, reqs) ==
    IF WhileCond(att, succ)
    THEN /\ requests' = Append(reqs, Request(i + 1, pl))
         /\ pc' = "fetch"
         /\ payload' = pl
         /\ attempt' = att
         /\ success' = succ
         /\ lastError' = err
         /\ allUploadIds' = ids
         /\ allMessages' = msgs
         /\ UNCHANGED << i, allSuccess, failedBatches, report >>
    ELSE /\ requests' = reqs
         /\ ForLoop(NextIndex(i), fileBatches,
                    AllSuccessAfter(allSuccess, succ),
                    IF succ THEN msgs
                    ELSE Append(msgs, FailedLine(i + 1, err)),
                    IF succ THEN failedBatches
                    ELSE Append(failedBatches,
                                FailedEntry(i + 1, fileBatches[i + 1], err)),
                    ids)

\* uploadToApi(files) up to its first await: the list is chunked and the
\* aggregates are initialised; an empty list returns at once.
Call(fs) ==
    /\ pc = "idle"
    /\ files' = fs
    /\ fileBatches' = chunkArray(fs, BatchSize)
    /\ requests' = requests
    /\ ForLoop(0, fileBatches', TRUE, << >>, << >>, << >>)
    /\ UNCHANGED << slots, encoded, thrown >>

Invoke ==
    /\ Call(files)
    /\ UNCHANGED << pageVars, oldVars >>

\* the input positions of the first and last item of the current batch
BatchLo == BatchSize * i + 1
BatchHi == BatchSize * i + Len(fileBatches[i + 1])

\* Promise.all of the batch's encodings resolves: the payload is built in
\* batch order and the first attempt is made.
EncodeResolve ==
    /\ pc = "encode"
    /\ slots = << >>
    /\ WhileLoop(EncodeBatch(fileBatches[i + 1]), 0, FALSE, "",
                 allUploadIds, allMessages, requests)
    /\ files' = InputAfterEncode(files, BatchLo, BatchHi)
    /\ encoded' = encoded \cup
                    { fileBatches[i + 1][k].file :
                        k \in 1..Len(fileBatches[i + 1]) }
    /\ UNCHANGED << fileBatches, slots, thrown >>
    /\ UNCHANGED << pageVars, oldVars >>

\* One encoding of the batch resolves (reader.onload): any of those still
\* running may be the next.
EncodeOne ==
    /\ pc = "encode"
    /\ \E k \in (1..Len(fileBatches[i + 1])) \ SlotIndexes(slots) :
         /\ slots' = Append(slots, Slot(k, fileBatches[i + 1][k]))
         /\ encoded' = encoded \cup { fileBatches[i + 1][k].file }
         /\ files' = InputAfterEncode(files, BatchLo + k - 1, BatchLo + k - 1)
    /\ UNCHANGED << pc, fileBatches, i, payload, attempt, success, lastError,
                    allUploadIds, allSuccess, allMessages, failedBatches,
                    requests, report, thrown >>
    /\ UNCHANGED << pageVars, oldVars >>

\* The last encoding of the batch has resolved: Promise.all resolves with
\* the results in batch order and the first attempt is made.
EncodeAll ==
    /\ pc = "encode"
    /\ Len(slots) = Len(fileBatches[i + 1])
    /\ WhileLoop(PromiseAll(slots, Len(slots)), 0, FALSE, "",
                 allUploadIds, allMessages, requests)
    /\ UNCHANGED << files, fileBatches, slots, encoded, thrown >>
    /\ UNCHANGED << pageVars, oldVars >>

\* One encoding of the batch rejects (reader.onerror passes a ProgressEvent,
\* which is no Error): Promise.all rejects and the outer catch returns.
EncodeReject ==
    /\ pc = "encode"
    /\ \E k \in (1..Len(fileBatches[i + 1])) \ SlotIndexes(slots) :
         /\ thrown' = ReadErrorEvent
         /\ report' = CatchReport(thrown')
    /\ pc' = "done"
    /\ UNCHANGED << files, fileBatches, i, payload, attempt, success,
                    lastError, allUploadIds, allSuccess, allMessages,
                    failedBatches, requests, slots, encoded >>
    /\ UNCHANGED << pageVars, oldVars >>

\* fetch() resolves with a response: a non-2xx status is a failed attempt
\* (lastError = response.statusText; attempt++; continue), a 2xx status goes
\* on to await response.json().
FetchResolve ==
    /\ pc = "fetch"
    /\ \E ok \in BOOLEAN :
         IF ok
         THEN /\ requests' = Answered(requests, "2xx", "pending")
              /\ pc' = "json"
              /\ UNCHANGED << i, payload, attempt, success, lastError,
                              allUploadIds, allSuccess, allMessages,
                              failedBatches, report >>
         ELSE WhileLoop(payload, attempt + 1, success,
                        "Internal Server Error", allUploadIds, allMessages,
                        Answered(requests, "non2xx", "na"))
    /\ slots' = (IF pc' = "encode" THEN << >> ELSE slots)
    /\ UNCHANGED << files, fileBatches, encoded, thrown >>
    /\ UNCHANGED << pageVars, oldVars >>

\* fetch() rejects (network error): catch { lastError = err.message;
\* attempt++ }
FetchReject ==
    /\ pc = "fetch"
    /\ WhileLoop(payload, attempt + 1, success, "Failed to fetch",
                 allUploadIds, allMessages,
                 Answered(requests, "neterr", "na"))
    /\ slots' = (IF pc' = "encode" THEN << >> ELSE slots)
    /\ UNCHANGED << files, fileBatches, encoded, thrown >>
    /\ UNCHANGED << pageVars, oldVars >>

\* response.json() resolves: the identifier (or the fallback) and the status
\* line are pushed and success is set.
JsonResolve ==
    /\ pc = "json"
    /\ \E resultId \in { << >>, << "upl", Len(requests) >> } :
         WhileLoop(payload, attempt, TRUE, lastError,
                   Append(allUploadIds, UploadIdOf(resultId)),
                   Append(allMessages, SuccessLine(i + 1)),
                   Parsed(requests, resultId))
    /\ slots' = (IF pc' = "encode" THEN << >> ELSE slots)
    /\ UNCHANGED << files, fileBatches, encoded, thrown >>
    /\ UNCHANGED << pageVars, oldVars >>

\* response.json() rejects (the body is no JSON; a body that parses to null
\* makes result.uploadId throw to the same effect): the same catch counts a
\* failed attempt.
JsonReject ==
    /\ pc = "json"
    /\ WhileLoop(payload, attempt + 1, success,
                 "Unexpected end of JSON input", allUploadIds, allMessages,
                 Answered(requests, "2xx", "unparseable"))
    /\ slots' = (IF pc' = "encode" THEN << >> ELSE slots)
    /\ UNCHANGED << files, fileBatches, encoded, thrown >>
    /\ UNCHANGED << pageVars, oldVars >>

Next ==
    \/ Invoke
    \/ EncodeResolve
    \/ EncodeReject
    \/ FetchResolve
    \/ FetchReject
    \/ JsonResolve
    \/ JsonReject

Spec == Init /\ [][Next]_vars

\* Every pending promise settles: no resumption is postponed for ever.
FairSpec == Spec /\ WF_vars(Next)

\* The same routine with every encoding of a batch followed on its own, on
\* short input lists.
InitEnc == Init /\ Len(files) <= MaxEncFiles

NextEnc ==
    \/ Invoke
    \/ EncodeOne
    \/ EncodeAll
    \/ EncodeReject
    \/ FetchResolve
    \/ FetchReject
    \/ JsonResolve
    \/ JsonReject

SpecEnc == InitEnc /\ [][NextEnc]_vars

\* ------------------------------------------------------ derived notions
NumBatches == Len(fileBatches)

\* ceil(n / d)
CeilDiv(n, d) == (n + d - 1) \div d

\* the batches concatenated in order
RECURSIVE Flatten(_)
Flatten(batches) ==
    IF Len(batches) = 0 THEN << >>
    ELSE Head(batches) \o Flatten(Tail(batches))

BatchSizes == [ b \in 1..NumBatches |-> Len(fileBatches[b]) ]

\* the positions in the request log of the requests carrying batch b
ReqsOf(b) == { k \in 1..Len(requests) : requests[k].batch = b }

\* a request whose attempt is not over yet
InFlight(k) ==
    requests[k].response = "pending" \/ requests[k].json = "pending"

\* batch b has its status line: it reached a terminal outcome
BatchSucceeded(b) == \E m \in 1..Len(allMessages) :
                        allMessages[m] = SuccessLine(b)
BatchFailed(b) == \E m \in 1..Len(failedBatches) :
                        failedBatches[m].batchIndex = b
BatchTerminal(b) == BatchSucceeded(b) \/ BatchFailed(b)

\* the request at log position k is the n-th attempt of its batch
AttemptNo(k) ==
    Cardinality({ j \in 1..k : requests[j].batch = requests[k].batch })

\* the log position of the n-th attempt of batch b
NthAttempt(b, n) == CHOOSE k \in ReqsOf(b) : AttemptNo(k) = n

\* what the endpoint did to the request at position k: it failed it (a
\* non-2xx status, or no response at all), or it answered with a 2xx status
EndpointFailed(k) == requests[k].response \in { "non2xx", "neterr" }
Endpoint2xx(k) == requests[k].response = "2xx"

\* ------------------------------------------------------------------ claims

\* the input position of the k-th item of batch b when the batches are
\* contiguous, and the one batch that holds input position p
PosOf(b, k) == BatchSize * (b - 1) + k
BatchOf(p) == ((p - 1) \div BatchSize) + 1

\* C1: for every input list of length N, chunkArray yields exactly
\* ceil(N/10) batches whose concatenation in order is the input list, and
\* every input item lies in exactly one batch.
C1_Partition ==
    pc # "idle" =>
        /\ NumBatches = CeilDiv(Len(files), BatchSize)
        /\ Flatten(fileBatches) = files
        /\ \A b \in 1..NumBatches : \A k \in 1..Len(fileBatches[b]) :
             /\ PosOf(b, k) \in 1..Len(files)
             /\ fileBatches[b][k] = files[PosOf(b, k)]
        /\ \A p \in 1..Len(files) :
             /\ BatchOf(p) \in 1..NumBatches
             /\ p - BatchSize * (BatchOf(p) - 1) \in 1..Len(fileBatches[BatchOf(p)])

C1_Witness ==
    /\ pc # "idle"
    /\ Len(files) = 21
    /\ NumBatches = 3
    /\ fileBatches[3] = << files[21] >>

\* C2: every batch holds 1 to 10 items and every batch but the last holds
\* exactly 10; 10 items give one batch, 11 items give batches of 10 and 1.
C2_BatchSizes ==
    pc # "idle" =>
        /\ \A b \in 1..NumBatches :
             /\ Len(fileBatches[b]) >= 1
             /\ Len(fileBatches[b]) <= BatchSize
             /\ b < NumBatches => Len(fileBatches[b]) = BatchSize
        /\ Len(files) = 10 => BatchSizes = << 10 >>
        /\ Len(files) = 11 => BatchSizes = << 10, 1 >>

C2_Witness ==
    /\ pc # "idle"
    /\ Len(files) = 11
    /\ BatchSizes = << 10, 1 >>

\* C3: for an empty input list no request is ever issued and the report is
\* { success: true, message: "", uploadId: "" }.
C3_EmptyInput ==
    Len(files) = 0 =>
        /\ requests = << >>
        /\ pc \in { "idle", "done" }
        /\ pc = "done" =>
             report = [ success |-> TRUE, message |-> << >>,
                        uploadId |-> << >> ]

C3_Witness ==
    /\ Len(files) = 0
    /\ pc = "done"
    /\ report.success

\* C4: batches are submitted one after the other in partition order: at
\* most one request is in flight (only the latest one can be), and a
\* request for a batch is issued only when every earlier batch has reached
\* its terminal outcome.
C4_Sequential ==
    /\ Cardinality({ k \in 1..Len(requests) : InFlight(k) }) <= 1
    /\ \A k \in 1..Len(requests) :
         /\ InFlight(k) => k = Len(requests)
         /\ k > 1 => requests[k - 1].batch <= requests[k].batch
         /\ \A b \in 1..(requests[k].batch - 1) : BatchTerminal(b)

C4_Witness ==
    /\ Len(requests) >= 2
    /\ InFlight(Len(requests))
    /\ requests[Len(requests)].batch = 3
    /\ BatchSucceeded(1)
    /\ BatchFailed(2)

\* C5: every batch receives at least 1 and at most 3 requests, whatever
\* the endpoint does.
C5_Original ==
    /\ \A b \in 1..NumBatches : Cardinality(ReqsOf(b)) <= MaxAttempts
    /\ pc = "done" =>
         \A b \in 1..NumBatches : Cardinality(ReqsOf(b)) >= 1

\* C6: a request that the endpoint failed (non-2xx status or network
\* error) as attempt 1 or 2 of its batch is followed in the request log by
\* another request of the same batch with the same body: no other batch
\* and no return comes between.
C6_RetryFollows ==
    \A k \in 1..Len(requests) :
        (EndpointFailed(k) /\ AttemptNo(k) < MaxAttempts) =>
            /\ k < Len(requests)
            /\ requests[k + 1].batch = requests[k].batch
            /\ requests[k + 1].body = requests[k].body

C6_Witness ==
    /\ Len(requests) = 3
    /\ requests[1].response = "non2xx"
    /\ requests[2].response = "neterr"
    /\ requests[3].batch = requests[1].batch
    /\ InFlight(3)
    /\ pc = "fetch"

\* C7: a batch whose attempts 1 and 2 the endpoint failed and whose attempt
\* 3 it answered with success has its success status line and an
\* identifier, has no failed-batches entry, and got exactly 3 requests.
C7_Original ==
    \A b \in 1..NumBatches :
        ( /\ Cardinality(ReqsOf(b)) >= MaxAttempts
          /\ EndpointFailed(NthAttempt(b, 1))
          /\ EndpointFailed(NthAttempt(b, 2))
          /\ Endpoint2xx(NthAttempt(b, 3))
          /\ ~InFlight(NthAttempt(b, 3)) )
        => /\ BatchSucceeded(b)
           /\ ~BatchFailed(b)
           /\ Len(allUploadIds) >= 1
           /\ Cardinality(ReqsOf(b)) = 3

\* C8: a batch is in failedBatches only if it got exactly 3 requests and
\* the endpoint failed all 3; a batch with an attempt the endpoint answered
\* with success is never in failedBatches.
C8_Original ==
    \A b \in 1..NumBatches :
        BatchFailed(b) =>
            /\ Cardinality(ReqsOf(b)) = 3
            /\ \A k \in ReqsOf(b) : EndpointFailed(k) /\ ~Endpoint2xx(k)

\* C9: a permanently failed batch never ends the loop: on return every
\* batch after it has been attempted at least once; with 3 batches of which
\* only the second failed, the third was attempted, the first and third
\* have their success lines in the report, and the report's success is
\* false.
C9_Original ==
    pc = "done" =>
        /\ \A b \in 1..NumBatches :
             BatchFailed(b) =>
                 \A c \in (b + 1)..NumBatches : ReqsOf(c) # { }
        /\ ( /\ NumBatches = 3
             /\ BatchSucceeded(1) /\ BatchFailed(2) /\ BatchSucceeded(3) )
           => /\ ReqsOf(3) # { }
              /\ report.success = FALSE
              /\ \E m \in 1..Len(report.message) :
                    report.message[m] = SuccessLine(1)
              /\ \E m \in 1..Len(report.message) :
                    report.message[m] = SuccessLine(3)

\* C10: the success flag is the conjunction of the per-batch outcomes: it
\* is false as soon as one batch is permanently failed, and the returned
\* flag is true exactly if every batch reached Success (as it does for no
\* batch at all).
C10_SuccessFlag ==
    /\ allSuccess <=> ~ \E b \in 1..NumBatches : BatchFailed(b)
    /\ pc = "done" =>
         /\ report.success <=> \A b \in 1..NumBatches : BatchSucceeded(b)
         /\ (\E b \in 1..NumBatches : BatchFailed(b)) => ~report.success

C10_Witness ==
    /\ pc = "done"
    /\ NumBatches = 3
    /\ BatchSucceeded(1) /\ BatchFailed(2) /\ BatchSucceeded(3)
    /\ report.success = FALSE
    /\ Len(report.message) > 1

\* the error recorded for the attempt at log position k, once it is over
ErrorOfAttempt(k) ==
    IF requests[k].response = "non2xx" THEN "Internal Server Error"
    ELSE IF requests[k].response = "neterr" THEN "Failed to fetch"
    ELSE IF requests[k].json = "unparseable"
         THEN "Unexpected end of JSON input"
    ELSE ""

\* the retry budget of batch b is used up: 3 attempts are over and none of
\* them set success
RetriesExhausted(b) ==
    /\ Cardinality(ReqsOf(b)) = MaxAttempts
    /\ \A k \in ReqsOf(b) : ~InFlight(k) /\ requests[k].json # "parsed"

\* the invocation returned from line 108 (and not from the outer catch)
NormalReturn == pc = "done" /\ "uploadId" \in DOMAIN report

\* the message of the exception behind a caught value: the message of an
\* Error, the message of the reader's error for a FileReader event
ExceptionMessage(e) == IF e.isError THEN e.message ELSE e.readerError

\* C11: an attempt answered with a 2xx status is a success of its batch:
\* the batch reaches Success on it, is not sent again and is not reported
\* failed.
C11_Original ==
    \A k \in 1..Len(requests) :
        (Endpoint2xx(k) /\ ~InFlight(k)) =>
            /\ BatchSucceeded(requests[k].batch)
            /\ ~BatchFailed(requests[k].batch)
            /\ \A j \in (k + 1)..Len(requests) :
                  requests[j].batch # requests[k].batch

\* C12: every item is encoded before the first request is issued, so an
\* encoding failure happens only while no request has been made.
C12_Original ==
    /\ requests # << >> =>
         \A p \in 1..Len(files) : files[p].file \in encoded
    /\ thrown.kind # "none" => requests = << >>

\* C13: the invocation always ends with a report; after an exception at
\* the encoding step the report has success = false and the message of
\* that exception.
C13_Original ==
    pc = "done" =>
        /\ "success" \in DOMAIN report
        /\ thrown.kind # "none" =>
             /\ report.success = FALSE
             /\ report.message = << StrTok(ExceptionMessage(thrown)) >>

\* C14: failedBatches has exactly one entry for every batch whose retries
\* are exhausted and none for any other batch; the entry holds the 1-based
\* index of the batch, the employeeName of each of its items in order and
\* the error of its third attempt; the entries are in batch order.
C14_FailedEntries ==
    /\ \A b \in 1..NumBatches :
         LET es == { m \in 1..Len(failedBatches) :
                       failedBatches[m].batchIndex = b }
         IN  IF RetriesExhausted(b)
             THEN /\ Cardinality(es) = 1
                  /\ \A m \in es :
                       /\ failedBatches[m].files =
                            [ k \in 1..Len(fileBatches[b]) |->
                                files[PosOf(b, k)].data.employeeName ]
                       /\ failedBatches[m].error =
                            ErrorOfAttempt(NthAttempt(b, MaxAttempts))
             ELSE es = { }
    /\ \A m \in 1..Len(failedBatches) :
         /\ failedBatches[m].batchIndex \in 1..NumBatches
         /\ m > 1 => failedBatches[m - 1].batchIndex
                        < failedBatches[m].batchIndex

C14_Witness ==
    /\ NumBatches = 3
    /\ Len(failedBatches) = 2
    /\ failedBatches[1].batchIndex = 1
    /\ failedBatches[1].error = "Failed to fetch"
    /\ failedBatches[2].batchIndex = 3
    /\ failedBatches[2].error = "Internal Server Error"
    /\ Len(failedBatches[2].files) = 1
    /\ BatchSucceeded(2)

\* the requests that set success, in the order of the log
IsParsed(r) == r.json = "parsed"
ParsedRequests == SelectSeq(requests, IsParsed)

StatusLine(b) ==
    IF BatchSucceeded(b) THEN SuccessLine(b)
    ELSE FailedLine(b, ErrorOfAttempt(NthAttempt(b, MaxAttempts)))

\* C16: on normal return the message is one status line per batch in batch
\* order with "; " between neighbours, followed by the serialized failed
\* batches exactly if at least one batch permanently failed.
C16_Message ==
    NormalReturn =>
        LET n == NumBatches
            f == Len(failedBatches)
            m == report.message
            base == IF n = 0 THEN 0 ELSE 2 * n - 1
        IN  /\ Len(m) = base + (IF f > 0 THEN 1 + f ELSE 0)
            /\ \A b \in 1..n :
                 /\ BatchTerminal(b)
                 /\ m[2 * b - 1] = StatusLine(b)
                 /\ b > 1 => m[2 * b - 2] = StrTok("; ")
            /\ f > 0 <=> \E b \in 1..n : RetriesExhausted(b)
            /\ f > 0 =>
                 /\ m[base + 1] = StrTok("; Failed batches: ")
                 /\ \A e \in 1..f :
                      m[base + 1 + e] =
                        Tok("json", failedBatches[e].batchIndex, "",
                            failedBatches[e].error, failedBatches[e].files)

C16_Witness ==
    /\ NormalReturn
    /\ NumBatches = 3
    /\ BatchFailed(1) /\ BatchSucceeded(2) /\ BatchFailed(3)
    /\ Len(report.message) = 8

\* C17: every request body holds the records of its batch's items in the
\* order of the input list, whatever the order in which the encodings of
\* the batch completed.
C17_InputOrder ==
    \A k \in 1..Len(requests) :
        LET b == requests[k].batch
            recs == requests[k].body.form16DocumentAlls
        IN  /\ Len(recs) = Len(fileBatches[b])
            /\ \A j \in 1..Len(recs) :
                 /\ recs[j].employeePAN = files[PosOf(b, j)].data.employeePAN
                 /\ j > 1 => recs[j - 1].employeePAN < recs[j].employeePAN

C17_Witness ==
    /\ Len(requests) >= 1
    /\ Len(slots) = 3
    /\ slots[1].index = 3
    /\ slots[2].index = 1
    /\ slots[3].index = 2
    /\ requests[1].body.form16DocumentAlls[1].employeePAN = 1
    /\ requests[1].body.form16DocumentAlls[3].employeePAN = 3

\* C18: every record sent is the item's own data with the document field
\* replaced by the base64 encoding of that item's own file.
C18_OwnDocument ==
    \A k \in 1..Len(requests) :
        LET b == requests[k].batch
            recs == requests[k].body.form16DocumentAlls
        IN  /\ Len(recs) = Len(fileBatches[b])
            /\ \A j \in 1..Len(recs) :
                 LET it == fileBatches[b][j]
                 IN  /\ DOMAIN recs[j] = DOMAIN it.data
                     /\ recs[j].employeeName = it.data.employeeName
                     /\ recs[j].employeePAN = it.data.employeePAN
                     /\ recs[j].document = convertFileToBase64(it.file)
                     /\ recs[j].document # it.data.document

C18_Witness ==
    /\ Len(requests) >= 1
    /\ requests[Len(requests)].batch = 2
    /\ Len(requests[Len(requests)].body.form16DocumentAlls) = 10
    /\ requests[Len(requests)].body.form16DocumentAlls[10].document
         = << "base64", 20 >>
    /\ files[20].data.document = << "caller", 20 >>

\* C19: no step of the invocation changes the caller's list: its length,
\* its order, its items and their data (document included) stay as they
\* were.
C19_InputUntouched == [][files' = files]_vars

C19_Witness ==
    /\ pc = "done"
    /\ Len(files) = 11
    /\ Len(requests) >= 2
    /\ encoded = { files[p].file : p \in 1..Len(files) }
    /\ files[11].data.document = << "caller", 11 >>

\* C20: provided every encoding and every request settles, every invocation
\* returns a report, and it never issues more than 3 * ceil(N/10) requests.
C20_Terminates ==
    /\ [](Len(requests) <= MaxAttempts * CeilDiv(Len(files), BatchSize))
    /\ <>[](pc = "done" /\ "success" \in DOMAIN report)

C20_Witness ==
    /\ pc = "done"
    /\ Len(files) = 21
    /\ Len(requests) = 9
    /\ "uploadId" \in DOMAIN report


\* C21: Success and PermanentlyFailed are terminal states of a batch: once
\* a batch is in one of them no further request is issued for it, its
\* requests and its outcome stay as they are; on normal return every batch
\* is in exactly one of the two.
C21_BatchStates ==
    /\ [][\A b \in 1..NumBatches :
            BatchTerminal(b) =>
                /\ BatchSucceeded(b)' = BatchSucceeded(b)
                /\ BatchFailed(b)' = BatchFailed(b)
                /\ ReqsOf(b)' = ReqsOf(b)
                /\ \A k \in ReqsOf(b) : requests'[k] = requests[k]]_vars
    /\ [](NormalReturn =>
            \A b \in 1..NumBatches : BatchSucceeded(b) # BatchFailed(b))

C21_Witness ==
    /\ NormalReturn
    /\ NumBatches = 3
    /\ BatchSucceeded(1) /\ Cardinality(ReqsOf(1)) = 2
    /\ BatchFailed(2) /\ Cardinality(ReqsOf(2)) = 3
    /\ BatchSucceeded(3) /\ Cardinality(ReqsOf(3)) = 1

\* C22: a batch is retried as a whole: every request of a batch carries all
\* the records of the batch and the same body as the request before it, and
\* a step that issues a retry neither encodes anything nor changes the
\* payload.
C22_WholeBatchRetry ==
    /\ [](\A k \in 1..Len(requests) :
            /\ Len(requests[k].body.form16DocumentAlls)
                 = Len(fileBatches[requests[k].batch])
            /\ (k > 1 /\ requests[k - 1].batch = requests[k].batch) =>
                 requests[k].body = requests[k - 1].body)
    /\ [][(Len(requests') > Len(requests) /\ pc # "encode") =>
            /\ requests'[Len(requests')].batch
                 = requests[Len(requests)].batch
            /\ requests'[Len(requests')].body.form16DocumentAlls = payload
            /\ payload' = payload
            /\ encoded' = encoded]_vars

C22_Witness ==
    /\ Len(requests) = 5
    /\ requests[3].batch = 2 /\ requests[4].batch = 2 /\ requests[5].batch = 2
    /\ Len(requests[5].body.form16DocumentAlls) = 10
    /\ requests[5].body = requests[3].body
    /\ requests[4].json = "unparseable"

\* C23: an encoding failure in batch k is not retried and not fail-soft: no
\* request is issued for batch k or a later one, and the invocation returns
\* at once a report with success = false and only the message of the
\* exception: no uploadId, no status line of an earlier batch.
C23_Original ==
    thrown.kind # "none" =>
        /\ \A k \in 1..Len(requests) : requests[k].batch <= i
        /\ pc = "done"
        /\ report.success = FALSE
        /\ "uploadId" \notin DOMAIN report
        /\ report.message = << StrTok(ExceptionMessage(thrown)) >>


\* ===================================================== the PdfReader pages
\* The API upload of the two PdfReader pages: handleApiUpload of
\* client/src/pages/PdfReader.tsx and handleBulkApiUpload of
\* src/pages/PdfReader.tsx, each driving uploadToApi.  The page starts with
\* a processed folder; the button is clickable as it was last rendered, and
\* React renders after every handler step.

\* Longest list of processed files of a page (11 = a full batch and one).
MaxPageFiles == 11
\* Cap of the counter of uploadToApi invocations that have not returned.
MaxInFlight == 2

\* the entry of uploadedFiles for the k-th processed file: the File and its
\* PdfData (no document yet: << >>)
PageItem(k) ==
    [ file |-> k,
      data |-> [ employeeName |-> k % NumNames,
                 employeePAN  |-> k,
                 document     |-> << >>,
                 uploadStatus |-> "pending",
                 uploadId     |-> << >> ] ]

\* the entry of extractedDataList for the k-th processed file: on the client
\* page the mock Azure upload has marked it, on the bulk page nothing has
PageEntry(pg, k) ==
    IF pg = "client"
    THEN [ PageItem(k).data EXCEPT !.uploadStatus = "success",
                                   !.uploadId = << "mock", k >> ]
    ELSE PageItem(k).data

\* the argument of uploadToApi: handleApiUpload maps every entry to a new
\* EmployeeData with document '', handleBulkApiUpload passes the state
ApiFiles(pg, uf) ==
    IF pg = "client"
    THEN [ k \in 1..Len(uf) |->
             [ file |-> uf[k].file,
               data |-> [ employeeName |-> uf[k].data.employeeName,
                          employeePAN  |-> uf[k].data.employeePAN,
                          document     |-> << >> ] ] ]
    ELSE uf

\* the upload button can be clicked: it is rendered and not disabled
ButtonEnabled_Always(pg) == TRUE

ButtonEnabled(pg) ==
    IF pg = "client"
    THEN Len(uploadedFiles) > 0 /\ ~isApiUploading
    ELSE Len(extractedDataList) > 0
           /\ ~(isApiUploading \/ Len(uploadedFiles) = 0)

\* if (result.success)
ResultOk_Always(result) == TRUE

ResultOk(result) == result.success

\* prev.map(item => ({ ...item, data: { ...item.data, uploadStatus:
\* 'success' } }))
MarkFiles(prev) ==
    [ k \in 1..Len(prev) |->
        [ prev[k] EXCEPT !.data = [ @ EXCEPT !.uploadStatus = "success" ] ] ]

\* prev.map(item => ({ ...item, uploadStatus: 'success' }))
MarkEntries(prev) ==
    [ k \in 1..Len(prev) |-> [ prev[k] EXCEPT !.uploadStatus = "success" ] ]

\* new Error(result.message || 'Upload failed').message
ThrownMessage(result) ==
    IF result.message = << >> THEN << StrTok("Upload failed") >>
    ELSE result.message

\* `API upload failed: ${error.message}`
BulkError(result) == << StrTok("API upload failed: ") >> \o ThrownMessage(result)

InitPage ==
    /\ files = << >>
    /\ UploadIdle
    /\ OldIdle
    /\ page \in { "client", "bulk" }
    /\ \E n \in 0..MaxPageFiles :
         /\ uploadedFiles = [ k \in 1..n |-> PageItem(k) ]
         /\ extractedDataList = [ k \in 1..n |-> PageEntry(page, k) ]
    /\ HandlersIdle

\* A click on the upload button: the handler runs up to await
\* uploadToApi(...), which itself runs up to its first await.  Only one
\* invocation is followed step by step; one started on top of it is counted.
ClickUpload ==
    /\ ButtonEnabled(page)
    /\ inFlight < MaxInFlight
    /\ IF Len(uploadedFiles) = 0
       THEN /\ toast' = (IF page = "client" THEN "No Files to Upload"
                         ELSE "No files to upload")
            /\ UNCHANGED << uploadVars, isApiUploading, pageError, handler,
                            inFlight >>
       ELSE /\ isApiUploading' = TRUE
            /\ pageError' = (IF page = "bulk" THEN << >> ELSE pageError)
            /\ handler' = "await"
            /\ inFlight' = inFlight + 1
            /\ toast' = toast
            /\ IF pc = "idle"
               THEN Call(ApiFiles(page, uploadedFiles))
               ELSE UNCHANGED uploadVars
    /\ UNCHANGED << page, uploadedFiles, extractedDataList,
                    failedPanExtractions, isProcessing, processingStarted,
                    tasks, timers, drops >>
    /\ UNCHANGED oldVars

\* await uploadToApi(...) resumes with the report: the handler shows the
\* outcome, the bulk page marks every entry or sets the error, and finally
\* isApiUploading is reset.  The finished invocation's locals are dropped.
UploadReturns ==
    /\ handler = "await"
    /\ pc = "done"
    /\ IF page = "client"
       THEN /\ toast' = (IF ResultOk(report) THEN "API Upload Successful"
                         ELSE "API Upload Failed")
            /\ UNCHANGED << uploadedFiles, extractedDataList, pageError >>
       ELSE IF ResultOk(report)
            THEN /\ toast' = "Upload Successful!"
                 /\ uploadedFiles' = MarkFiles(uploadedFiles)
                 /\ extractedDataList' = MarkEntries(extractedDataList)
                 /\ pageError' = pageError
            ELSE /\ toast' = "Upload Failed"
                 /\ pageError' = BulkError(report)
                 /\ UNCHANGED << uploadedFiles, extractedDataList >>
    /\ isApiUploading' = FALSE
    /\ handler' = "none"
    /\ inFlight' = inFlight - 1
    /\ files' = << >>
    /\ pc' = "idle"
    /\ fileBatches' = << >>
    /\ i' = 0
    /\ payload' = << >>
    /\ attempt' = 0
    /\ success' = FALSE
    /\ lastError' = ""
    /\ allUploadIds' = << >>
    /\ allSuccess' = TRUE
    /\ allMessages' = << >>
    /\ failedBatches' = << >>
    /\ requests' = << >>
    /\ report' = NoReport
    /\ slots' = << >>
    /\ encoded' = { }
    /\ thrown' = NoThrow
    /\ UNCHANGED << page, failedPanExtractions, isProcessing,
                    processingStarted, tasks, timers, drops >>
    /\ UNCHANGED oldVars

NextPage ==
    \/ ClickUpload
    \/ UploadReturns
    \/ EncodeResolve
    \/ EncodeReject
    \/ FetchResolve
    \/ FetchReject
    \/ JsonResolve
    \/ JsonReject

SpecPage == InitPage /\ [][NextPage]_vars

\* C24: at most one uploadToApi invocation is in flight: while
\* isApiUploading is true no click starts another upload, isApiUploading is
\* true exactly while the handler awaits the upload, and it is false again
\* when the handler has resumed, whatever the report.
C24_OneUpload ==
    /\ [](inFlight <= 1)
    /\ [](isApiUploading <=> handler = "await")
    /\ [](isApiUploading <=> inFlight = 1)
    /\ [][isApiUploading => inFlight' <= inFlight]_vars
    /\ [][inFlight' < inFlight => ~isApiUploading']_vars

C24_Witness ==
    /\ page = "bulk"
    /\ toast = "Upload Failed"
    /\ inFlight = 1
    /\ isApiUploading
    /\ Len(requests) >= 1

\* C25: on the bulk page an item's uploadStatus becomes 'success' only in
\* the step that receives a report with success = true, i.e. with every
\* batch succeeded; when a batch permanently failed that step marks no item
\* and sets the error state to the report's message.
C25_MarkOnlyOnSuccess ==
    /\ [][(page = "bulk" /\
           \/ \E k \in 1..Len(uploadedFiles') :
                /\ uploadedFiles'[k].data.uploadStatus = "success"
                /\ k <= Len(uploadedFiles) =>
                     uploadedFiles[k].data.uploadStatus # "success"
           \/ \E k \in 1..Len(extractedDataList') :
                /\ extractedDataList'[k].uploadStatus = "success"
                /\ k <= Len(extractedDataList) =>
                     extractedDataList[k].uploadStatus # "success")
          => /\ handler = "await" /\ pc = "done"
             /\ report.success = TRUE
             /\ \A b \in 1..NumBatches : BatchSucceeded(b)]_vars
    /\ [][(page = "bulk" /\ handler = "await" /\ handler' = "none"
             /\ \E b \in 1..NumBatches : BatchFailed(b))
          => /\ uploadedFiles' = uploadedFiles
             /\ extractedDataList' = extractedDataList
             /\ pageError' = << StrTok("API upload failed: ") >>
                               \o report.message]_vars

C25_Witness ==
    /\ page = "bulk"
    /\ handler = "none"
    /\ toast = "Upload Failed"
    /\ Len(uploadedFiles) = 11
    /\ Len(pageError) > 4
    /\ pageError[2] = SuccessLine(1)
    /\ pageError[4].kind = "line" /\ pageError[4].batch = 2
    /\ \A k \in 1..11 : uploadedFiles[k].data.uploadStatus = "pending"
    /\ \A k \in 1..11 : extractedDataList[k].uploadStatus = "pending"


\* ============================================ folder drops, client page
\* handleFileUpload of client/src/pages/PdfReader.tsx, called by
\* findPdfInFolder of the FileUpload component once for every PDF of a
\* dropped folder without awaiting: the invocations of one drop run up to
\* their first await inside the drop event, all with the handleFileUpload
\* of the last render, and are resumed one by one in any order.

\* Number of folder drops followed.
MaxDrops == 2
\* Largest number of PDFs in one dropped folder.
MaxDropFiles == 2
\* Number of distinct employee paths (MainFolder/SubFolder).
NumPaths == 2

\* the drop zone and the folder input accept a folder
DropEnabled == ~isProcessing

\* extractDataFromPdf(file): the fields read from the file's first page;
\* it never rejects, a PAN that is not found is 'EXTRACTION_FAILED'
ExtractedData(f, panOk) ==
    [ employeeName |-> f % NumNames,
      employeePAN  |-> (IF panOk THEN << "pan", f >>
                        ELSE << "EXTRACTION_FAILED" >>),
      pdfread      |-> f ]

\* const employeeData = { ...extractedData, employeePath, companyName,
\* uploadStatus: 'pending' }
EmployeeData(f, path, panOk) ==
    [ employeeName |-> ExtractedData(f, panOk).employeeName,
      employeePAN  |-> ExtractedData(f, panOk).employeePAN,
      pdfread      |-> ExtractedData(f, panOk).pdfread,
      employeePath |-> path,
      uploadStatus |-> "pending",
      uploadId     |-> << >> ]

\* prev.map(item => item.employeePath === employeePath ? updatedData : item)
ReplaceByPath(prev, path, updatedData) ==
    [ k \in 1..Len(prev) |->
        IF prev[k].employeePath = path THEN updatedData ELSE prev[k] ]

\* prev.map(item => item.employeePath === employeePath
\*                    ? { ...item, uploadStatus, uploadId } : item)
StatusByPath(prev, path, status, id) ==
    [ k \in 1..Len(prev) |->
        IF prev[k].employeePath = path
        THEN [ prev[k] EXCEPT !.uploadStatus = status, !.uploadId = id ]
        ELSE prev[k] ]

\* what mockAzureUpload resolves with for file f
MockAzureResult(f) == [ success |-> TRUE, uploadId |-> << "mock", f >> ]

InitClient ==
    /\ files = << >>
    /\ UploadIdle
    /\ OldIdle
    /\ page = "client"
    /\ PageMounted

\* A folder with m PDFs is dropped (or selected): handleFileUpload is called
\* for each of them and runs up to await extractDataFromPdf(file).
Drop ==
    /\ DropEnabled
    /\ drops < MaxDrops
    /\ \E paths \in UNION { [ 1..m -> 1..NumPaths ] : m \in 1..MaxDropFiles } :
         tasks' = tasks \o
                    [ j \in 1..Len(paths) |->
                        [ pc |-> "extract", drop |-> drops + 1,
                          employeePath |-> paths[j] ] ]
    /\ drops' = drops + 1
    /\ IF ~processingStarted
       THEN /\ extractedDataList' = << >>
            /\ failedPanExtractions' = << >>
            /\ uploadedFiles' = << >>
            /\ processingStarted' = TRUE
       ELSE UNCHANGED << extractedDataList, failedPanExtractions,
                         uploadedFiles, processingStarted >>
    /\ isProcessing' = TRUE
    /\ pageError' = << >>
    /\ UNCHANGED << page, isApiUploading, toast, handler, inFlight, timers >>
    /\ UNCHANGED << uploadVars, oldVars >>

\* await extractDataFromPdf(file) resumes in the invocation for file f: the
\* file is stored, its entry appended and set to 'uploading', and the mock
\* Azure upload is awaited.
ExtractDone ==
    \E f \in 1..Len(tasks), panOk \in BOOLEAN :
      LET path == tasks[f].employeePath
          employeeData == EmployeeData(f, path, panOk)
          updatedData == [ employeeData EXCEPT !.uploadStatus = "uploading" ]
      IN  /\ tasks[f].pc = "extract"
          /\ uploadedFiles' =
               Append(uploadedFiles, [ file |-> f, data |-> employeeData ])
          /\ IF panOk
             THEN UNCHANGED << failedPanExtractions, toast >>
             ELSE /\ failedPanExtractions' =
                       Append(failedPanExtractions,
                              [ fileName |-> f, employeePath |-> path ])
                  /\ toast' = "PAN Extraction Failed"
          /\ extractedDataList' =
               ReplaceByPath(Append(extractedDataList, employeeData),
                             path, updatedData)
          /\ tasks' = [ tasks EXCEPT ![f].pc = "azure" ]
          /\ UNCHANGED << page, isProcessing, isApiUploading, pageError,
                          processingStarted, handler, inFlight, timers,
                          drops >>
          /\ UNCHANGED << uploadVars, oldVars >>

\* await mockAzureUpload(...) resumes in the invocation for file f: the
\* status is set by employeePath, and finally isProcessing is reset and the
\* 3000 ms timer is started.
AzureDone ==
    \E f \in 1..Len(tasks) :
      LET path == tasks[f].employeePath
          uploadResult == MockAzureResult(f)
      IN  /\ tasks[f].pc = "azure"
          /\ IF uploadResult.success
             THEN /\ extractedDataList' =
                       StatusByPath(extractedDataList, path, "success",
                                    uploadResult.uploadId)
                  /\ toast' = "Upload Successful"
             ELSE /\ extractedDataList' =
                       [ k \in 1..Len(extractedDataList) |->
                           IF extractedDataList[k].employeePath = path
                           THEN [ extractedDataList[k]
                                    EXCEPT !.uploadStatus = "error" ]
                           ELSE extractedDataList[k] ]
                  /\ toast' = "Upload Failed"
          /\ isProcessing' = FALSE
          /\ timers' = timers + 1
          /\ tasks' = [ tasks EXCEPT ![f].pc = "finished" ]
          /\ UNCHANGED << page, uploadedFiles, failedPanExtractions,
                          isApiUploading, pageError, processingStarted,
                          handler, inFlight, drops >>
          /\ UNCHANGED << uploadVars, oldVars >>

\* setTimeout(() => setProcessingStarted(false), 3000) fires
TimerFires ==
    /\ timers > 0
    /\ timers' = timers - 1
    /\ processingStarted' = FALSE
    /\ UNCHANGED << page, uploadedFiles, extractedDataList,
                    failedPanExtractions, isProcessing, isApiUploading,
                    pageError, toast, handler, inFlight, tasks, drops >>
    /\ UNCHANGED << uploadVars, oldVars >>

NextClient ==
    \/ Drop
    \/ ExtractDone
    \/ AzureDone
    \/ TimerFires

SpecClient == InitClient /\ [][NextClient]_vars

\* the handleFileUpload invocation for file f has not finished
InProgress(f) == tasks[f].pc \in { "extract", "azure" }

\* the extracted fields of an entry of extractedDataList
ExtractedFields(e) ==
    << e.employeeName, e.employeePAN, e.pdfread, e.employeePath >>

\* C26: when a new folder drop starts, the three lists hold no entry of an
\* earlier drop, and no step removes an entry of the current drop.
C26_Original ==
    /\ [][drops' > drops =>
            /\ \A k \in 1..Len(extractedDataList') :
                 tasks'[extractedDataList'[k].pdfread].drop = drops'
            /\ \A k \in 1..Len(failedPanExtractions') :
                 tasks'[failedPanExtractions'[k].fileName].drop = drops'
            /\ \A k \in 1..Len(uploadedFiles') :
                 tasks'[uploadedFiles'[k].file].drop = drops']_vars
    /\ [][\A k \in 1..Len(uploadedFiles) :
            tasks[uploadedFiles[k].file].drop = drops' =>
              \E m \in 1..Len(uploadedFiles') :
                 uploadedFiles'[m] = uploadedFiles[k]]_vars

\* C27: a status update changes only uploadStatus and uploadId, and only in
\* the entry of the file being processed: unless the list is cleared by a
\* new drop, every entry keeps its extracted fields and the entries of the
\* other files stay as they are.
C27_Original ==
    [][drops' = drops =>
         \A k \in 1..Len(extractedDataList) :
            /\ k <= Len(extractedDataList')
            /\ ExtractedFields(extractedDataList'[k])
                 = ExtractedFields(extractedDataList[k])
            /\ tasks'[extractedDataList[k].pdfread]
                 = tasks[extractedDataList[k].pdfread] =>
                   extractedDataList'[k] = extractedDataList[k]]_vars

\* C28: isProcessing is true exactly while at least one handleFileUpload
\* invocation is in progress.
C28_Original ==
    isProcessing <=> \E f \in 1..Len(tasks) : InProgress(f)


\* ================================================ the superseded variant
\* uploadToApi of client/src/services/certificateStoreAPI.ts: the same
\* batches, one POST per batch, no retry.  It is run on the same list after
\* the routine above has returned, against the same environment: an
\* unreadable file is unreadable again, and the endpoint answers its n-th
\* request as it answered the n-th request before.

\* const fileBatches = chunkArray(files, 10)
OldBatches == chunkArray(files, BatchSize)

\* Date.now() of that run
OldDateNow == Len(oldRequests)

\* result.uploadId || `api-${Date.now()}`
OldUploadIdOf(resultId) ==
    IF resultId = << >> THEN << "api", OldDateNow >> ELSE resultId

\* 'Batch uploaded successfully' and `Batch upload failed: ${statusText}`
OldSuccessLine == Tok("line", 0, "Batch uploaded successfully", "", << >>)
OldFailedLine(err) == Tok("line", 0, "Batch upload failed", err, << >>)

\* the report of its normal return
OldFinalReport(ok, msgs, ids) ==
    [ success  |-> ok,
      message  |-> join(msgs, StrTok("; ")),
      uploadId |-> join(ids, << "," >>) ]

\* the encoding of a file of batch b fails, as it did before
Unreadable(b) == thrown.kind # "none" /\ i + 1 = b

\* for (const batch of fileBatches): the b-th batch is taken and its
\* encodings are started, or the loop is over and the report is returned
OldForLoop(b, ok, msgs, ids) ==
    /\ oldAllSuccess' = ok
    /\ oldMessages' = msgs
    /\ oldUploadIds' = ids
    /\ oldPayload' = << >>
    /\ IF b <= Len(OldBatches)
       THEN /\ oldPc' = "encode"
            /\ oldBatch' = b
            /\ oldReport' = oldReport
       ELSE /\ oldPc' = "done"
            /\ oldBatch' = oldBatch
            /\ oldReport' = OldFinalReport(ok, msgs, ids)

OldInvoke ==
    /\ pc = "done"
    /\ oldPc = "idle"
    /\ OldForLoop(1, TRUE, << >>, << >>)
    /\ oldRequests' = oldRequests
    /\ UNCHANGED << uploadVars, pageVars >>

\* Promise.all of the batch's encodings resolves and the batch is posted
OldEncodeResolve ==
    /\ oldPc = "encode"
    /\ ~Unreadable(oldBatch)
    /\ oldPayload' = EncodeBatch(OldBatches[oldBatch])
    /\ oldRequests' = Append(oldRequests, Request(oldBatch, oldPayload'))
    /\ oldPc' = "fetch"
    /\ UNCHANGED << oldBatch, oldUploadIds, oldAllSuccess, oldMessages,
                    oldReport >>
    /\ UNCHANGED << uploadVars, pageVars >>

\* an encoding of the batch rejects: the outer catch returns
OldEncodeReject ==
    /\ oldPc = "encode"
    /\ Unreadable(oldBatch)
    /\ oldReport' = CatchReport(ReadErrorEvent)
    /\ oldPc' = "done"
    /\ UNCHANGED << oldBatch, oldPayload, oldUploadIds, oldAllSuccess,
                    oldMessages, oldRequests >>
    /\ UNCHANGED << uploadVars, pageVars >>

\* fetch() resolves: a non-2xx status fails the batch (continue), a 2xx
\* status goes on to await response.json()
OldFetchResolve ==
    /\ oldPc = "fetch"
    /\ Len(oldRequests) <= Len(requests)
    /\ requests[Len(oldRequests)].response \in { "2xx", "non2xx" }
    /\ IF requests[Len(oldRequests)].response = "2xx"
       THEN /\ oldRequests' = Answered(oldRequests, "2xx", "pending")
            /\ oldPc' = "json"
            /\ UNCHANGED << oldBatch, oldPayload, oldUploadIds,
                            oldAllSuccess, oldMessages, oldReport >>
       ELSE /\ oldRequests' = Answered(oldRequests, "non2xx", "na")
            /\ OldForLoop(oldBatch + 1, FALSE,
                          Append(oldMessages,
                                 OldFailedLine("Internal Server Error")),
                          oldUploadIds)
    /\ UNCHANGED << uploadVars, pageVars >>

\* response.json() resolves: the identifier (or the fallback) and the
\* status line are pushed
OldJsonResolve ==
    /\ oldPc = "json"
    /\ requests[Len(oldRequests)].json = "parsed"
    /\ oldRequests' = Parsed(oldRequests, requests[Len(oldRequests)].uploadId)
    /\ OldForLoop(oldBatch + 1, oldAllSuccess,
                  Append(oldMessages, OldSuccessLine),
                  Append(oldUploadIds,
                         OldUploadIdOf(requests[Len(oldRequests)].uploadId)))
    /\ UNCHANGED << uploadVars, pageVars >>

\* the endpoint answers the request with a 2xx status
FetchOk == FetchResolve /\ pc' = "json"

NextOld ==
    \/ Invoke
    \/ EncodeResolve
    \/ EncodeReject
    \/ FetchOk
    \/ JsonResolve
    \/ OldInvoke
    \/ OldEncodeResolve
    \/ OldEncodeReject
    \/ OldFetchResolve
    \/ OldJsonResolve

SpecOld == Init /\ [][NextOld]_vars

\* C29: against an endpoint that answers every request with a 2xx status
\* and a JSON body, the routine with retry issues one request per batch in
\* batch order, and the superseded routine issues the same sequence of
\* request bodies and returns the same success flag and the same uploadId
\* list.
C29_SameAsOld ==
    /\ \A n \in 1..Len(requests) : requests[n].batch = n
    /\ \A n \in 1..Len(oldRequests) :
         /\ n <= Len(requests)
         /\ oldRequests[n].batch = requests[n].batch
         /\ oldRequests[n].body = requests[n].body
    /\ oldPc = "done" =>
         /\ Len(oldRequests) = Len(requests)
         /\ oldReport.success = report.success
         /\ oldUploadIds = allUploadIds
         /\ ("uploadId" \in DOMAIN oldReport) <=> ("uploadId" \in DOMAIN report)
         /\ "uploadId" \in DOMAIN report =>
              oldReport.uploadId = report.uploadId

C29_Witness ==
    /\ oldPc = "done"
    /\ Len(files) = 21
    /\ Len(oldRequests) = 3
    /\ Len(oldRequests[3].body.form16DocumentAlls) = 1
    /\ oldReport.success
    /\ Len(oldUploadIds) = 3
    /\ oldUploadIds[1][1] = "api"
    /\ oldUploadIds[2][1] = "upl"

====
